---- MODULE Spec2Model ----
(***************************************************************************)
(* State-machine model of vnpy/app/option_master/base.py: the option book  *)
(* (InstrumentData / OptionData / UnderlyingData / ChainData /             *)
(* PortfolioData), its registration and activation protocol, and the      *)
(* quote / fill cascades.                                                  *)
(*                                                                         *)
(* Objects.  OptionData objects live in the heap `opt` (a sequence; the    *)
(* index is the object's identity, a new object is appended).  ChainData   *)
(* and UnderlyingData objects are created at most once per symbol          *)
(* (get_chain, set_chain_underlying), so the symbol is their identity:     *)
(* `chn` is PortfolioData._chains and `und` is PortfolioData.underlyings.  *)
(* A Python dict that the code iterates is a sequence of <<key, value>>    *)
(* pairs in insertion order; one that is only looked up is a function.     *)
(*                                                                         *)
(* Numbers.  Prices, volatilities and Greeks are integers; the inputs are  *)
(* chosen so that every true division of the source ((bid + ask) / 2,      *)
(* size * mid_price / 100, (ask_impv + bid_impv) / 2, days_to_expiry /     *)
(* ANNUAL_DAYS) is exact.                                                  *)
(*                                                                         *)
(* Exceptions.  A method is an operator from a world record to a world     *)
(* record; a raised exception sets the field `exc` and every later         *)
(* statement of the call is skipped, so the partial updates made before    *)
(* the raise stay in the objects, as in Python.                            *)
(***************************************************************************)
EXTENDS Integers, Sequences, FiniteSets, TLC

VARIABLES
    opt,          \* heap of OptionData objects
    und,          \* PortfolioData.underlyings: vt_symbol -> UnderlyingData
    chn,          \* PortfolioData._chains: chain_symbol -> ChainData
    pf,           \* PortfolioData aggregate figures
    options,      \* PortfolioData.options (active): vt_symbol -> object id
    chains,       \* PortfolioData.chains (active): chain symbols, insertion order
    all_options,  \* PortfolioData._options (master): vt_symbol -> object id
    exc           \* exception raised by the last call, or None

vars == <<opt, und, chn, pf, options, chains, all_options, exc>>

None == "None"
NoTick == <<>>

-----------------------------------------------------------------------------
\* Bounds of the model

\* OptionData objects constructed in the book (calls of PortfolioData.add_option)
MaxObjs == 2
\* total open quantity of the book: sum of |long_pos| + |short_pos| over all
\* instruments; also the largest distance a snapshot may put between the
\* quantities of a chain and those of its options
MaxPos == 2
\* the at-the-money book holds two calls and a put
MaxAtmObjs == MaxObjs + 1

-----------------------------------------------------------------------------
\* Inputs delivered by the collaborators

CALL == "CALL"
PUT == "PUT"
LONG == "LONG"
SHORT == "SHORT"
OPEN == "OPEN"
CLOSE == "CLOSE"

\* days of a year (vnpy.app.option_master.time.ANNUAL_DAYS)
ANNUAL_DAYS == 240

\* days_to_expiry is what calculate_days_to_expiry(contract.option_expiry)
\* returns for the contract: one year, so that days_to_expiry / ANNUAL_DAYS is
\* exact
OptionContract(sym, root, strike, index, type) ==
    [vt_symbol |-> sym, option_underlying |-> root, exchange |-> "CFFEX",
     option_strike |-> strike, option_index |-> index, option_type |-> type,
     size |-> 2, days_to_expiry |-> ANNUAL_DAYS]

OptionContracts ==
    { OptionContract("C100", "IO", 100, "1", CALL),
      OptionContract("C104", "IO", 104, "2", CALL),
      OptionContract("P100", "IO", 100, "1", PUT) }

UnderlyingContracts ==
    { [vt_symbol |-> "IF", size |-> 100],
      [vt_symbol |-> "IH", size |-> 100] }

ChainSymbols == {"IO.CFFEX", "HO.CFFEX"}

OptionSymbols == {c.vt_symbol : c \in OptionContracts}
UnderlyingSymbols == {c.vt_symbol : c \in UnderlyingContracts}
\* "ZZ" is a symbol no contract carries
Symbols == OptionSymbols \cup UnderlyingSymbols \cup {"ZZ"}

Tick(sym, bid, ask) == [vt_symbol |-> sym, bid_price_1 |-> bid, ask_price_1 |-> ask]
Trade(sym, dir, off, vol) ==
    [vt_symbol |-> sym, direction |-> dir, offset |-> off, volume |-> vol]

OptionQuotes == { <<0, 0>>, <<2, 4>>, <<4, 8>> }
UnderlyingQuotes == { <<0, 0>>, <<99, 101>>, <<100, 102>>, <<101, 103>> }

\* position snapshots of the reconciliation source
Holdings == { [long_pos |-> l, short_pos |-> s] : l, s \in 0..1 }

InterestRates == {1}
PricingModels == {"black_76"}

-----------------------------------------------------------------------------
\* Pricing model (vnpy.app.option_master.pricing.*): pure functions bound to
\* an option by set_pricing_model.  A deterministic stand-in: zero volatility
\* for a zero price, intrinsic value as the price.

Abs(x) == IF x < 0 THEN -x ELSE x
Max0(x) == IF x > 0 THEN x ELSE 0

calculate_impv(price, s, k, r, t, cp) == IF price <= 0 THEN 0 ELSE 2 * price

calculate_greeks(s, k, r, t, v, cp) ==
    [price |-> Max0(cp * (s - k)) + v, delta |-> cp, gamma |-> 1, theta |-> -1, vega |-> v]

-----------------------------------------------------------------------------
\* Python dict with insertion order: a sequence of <<key, value>>

DictHas(d, k) == \E i \in 1..Len(d) : d[i][1] = k
DictGet(d, k) == d[CHOOSE i \in 1..Len(d) : d[i][1] = k][2]
DictSet(d, k, v) ==
    IF DictHas(d, k)
    THEN [i \in 1..Len(d) |-> IF d[i][1] = k THEN <<k, v>> ELSE d[i]]
    ELSE Append(d, <<k, v>>)
DictValues(d) == [i \in 1..Len(d) |-> d[i][2]]

RECURSIVE SumSet(_, _)
\* sum of g[x] over the domain S of the function g restricted to S
SumSet(S, g) ==
    IF S = {} THEN 0
    ELSE LET x == CHOOSE y \in S : TRUE IN g[x] + SumSet(S \ {x}, g)

SeqHas(s, x) == \E i \in 1..Len(s) : s[i] = x
\* list.append on a key list that holds each key once (dict keyed by itself)
SeqAdd(s, x) == IF SeqHas(s, x) THEN s ELSE Append(s, x)

\* str ordering of the rank indexes used by the contracts (single characters)
IndexOrd(i) == CASE i = "1" -> 1 [] i = "2" -> 2 [] OTHER -> 0
RECURSIVE SortedInsert(_, _)
SortedInsert(s, x) ==
    IF s = <<>> THEN <<x>>
    ELSE IF IndexOrd(x) < IndexOrd(Head(s)) THEN <<x>> \o s
    ELSE <<Head(s)>> \o SortedInsert(Tail(s), x)

-----------------------------------------------------------------------------
\* The world a call works on, and raising

World ==
    [opt |-> opt, und |-> und, chn |-> chn, pf |-> pf, options |-> options,
     chains |-> chains, all_options |-> all_options, exc |-> None]

Raise(W, e) == IF W.exc = None THEN [W EXCEPT !.exc = e] ELSE W

Apply(W) ==
    /\ opt' = W.opt
    /\ und' = W.und
    /\ chn' = W.chn
    /\ pf' = W.pf
    /\ options' = W.options
    /\ chains' = W.chains
    /\ all_options' = W.all_options
    /\ exc' = W.exc

-----------------------------------------------------------------------------
\* Constructors

OptionData_init(contract) ==
    [vt_symbol |-> contract.vt_symbol,
     size |-> contract.size,
     long_pos |-> 0, short_pos |-> 0, net_pos |-> 0,
     mid_price |-> 0,
     tick |-> NoTick,
     strike_price |-> contract.option_strike,
     chain_index |-> contract.option_index,
     option_type |-> IF contract.option_type = CALL THEN 1 ELSE -1,
     days_to_expiry |-> contract.days_to_expiry,
     interest_rate |-> 0,
     underlying |-> None,
     chain |-> None,
     underlying_adjustment |-> 0,
     calculate_price |-> None, calculate_greeks |-> None, calculate_impv |-> None,
     bid_impv |-> 0, ask_impv |-> 0, mid_impv |-> 0,
     pricing_impv |-> 0,
     theo_price |-> 0, theo_delta |-> 0, theo_gamma |-> 0, theo_theta |-> 0,
     theo_vega |-> 0,
     pos_value |-> 0, pos_delta |-> 0, pos_gamma |-> 0, pos_theta |-> 0,
     pos_vega |-> 0]

UnderlyingData_init(contract) ==
    [vt_symbol |-> contract.vt_symbol,
     size |-> contract.size,
     long_pos |-> 0, short_pos |-> 0, net_pos |-> 0,
     mid_price |-> 0,
     tick |-> NoTick,
     theo_delta |-> 0,
     pos_delta |-> 0,
     chains |-> <<>>]

ChainData_init(chain_symbol) ==
    [chain_symbol |-> chain_symbol,
     long_pos |-> 0, short_pos |-> 0, net_pos |-> 0,
     pos_value |-> 0, pos_delta |-> 0, pos_gamma |-> 0, pos_theta |-> 0,
     pos_vega |-> 0,
     underlying |-> None,
     options |-> <<>>, calls |-> <<>>, puts |-> <<>>,
     indexes |-> <<>>,
     atm_price |-> 0,
     atm_index |-> "",
     underlying_adjustment |-> 0,
     days_to_expiry |-> 0]

\* __init__ leaves pos_value unset: the attribute appears with the first
\* calculate_pos_greeks
PortfolioData_init ==
    [long_pos |-> 0, short_pos |-> 0, net_pos |-> 0,
     pos_delta |-> 0, pos_gamma |-> 0, pos_theta |-> 0, pos_vega |-> 0]

Init ==
    /\ opt = <<>>
    /\ und = <<>>
    /\ chn = <<>>
    /\ pf = PortfolioData_init
    /\ options = <<>>
    /\ chains = <<>>
    /\ all_options = <<>>
    /\ exc = None

-----------------------------------------------------------------------------
\* Registration and activation

ChainSymbolOf(contract) == contract.option_underlying \o "." \o contract.exchange

\* chain.set_portfolio iterates the keys of the new chain's empty options dict
PortfolioData_get_chain(W, chain_symbol) ==
    IF chain_symbol \in DOMAIN W.chn THEN W
    ELSE [W EXCEPT !.chn = W.chn @@ (chain_symbol :> ChainData_init(chain_symbol))]

ChainData_add_option(W, cs, id) ==
    LET o == W.opt[id]
        c == W.chn[cs]
        c1 == [c EXCEPT !.options = DictSet(c.options, o.vt_symbol, id),
                        !.calls = IF o.option_type > 0
                                  THEN DictSet(c.calls, o.chain_index, id) ELSE @,
                        !.puts = IF o.option_type > 0
                                 THEN @ ELSE DictSet(c.puts, o.chain_index, id),
                        !.indexes = IF SeqHas(c.indexes, o.chain_index) THEN @
                                    ELSE SortedInsert(@, o.chain_index),
                        !.days_to_expiry = o.days_to_expiry]
    IN [W EXCEPT !.chn[cs] = c1, !.opt[id].chain = cs]

PortfolioData_add_option(W, contract) ==
    LET id == Len(W.opt) + 1
        W1 == [W EXCEPT !.opt = Append(W.opt, OptionData_init(contract)),
                        !.all_options = (contract.vt_symbol :> id) @@ W.all_options]
        W2 == PortfolioData_get_chain(W1, ChainSymbolOf(contract))
    IN ChainData_add_option(W2, ChainSymbolOf(contract), id)

\* variant: the chains of an underlying kept as a list that is appended to
UnderlyingData_add_chain_append(u, cs) == [u EXCEPT !.chains = Append(u.chains, cs)]

UnderlyingData_add_chain(u, cs) == [u EXCEPT !.chains = SeqAdd(u.chains, cs)]

RECURSIVE SetUnderlyingAll(_, _, _)
SetUnderlyingAll(heap, ids, us) ==
    IF ids = <<>> THEN heap
    ELSE SetUnderlyingAll([heap EXCEPT ![Head(ids)].underlying = us], Tail(ids), us)

ChainData_set_underlying(W, cs, us) ==
    [W EXCEPT !.und[us] = UnderlyingData_add_chain(W.und[us], cs),
              !.chn[cs].underlying = us,
              !.opt = SetUnderlyingAll(W.opt, DictValues(W.chn[cs].options), us)]

RECURSIVE ActivateAll(_, _)
ActivateAll(reg, d) ==
    IF d = <<>> THEN reg
    ELSE ActivateAll((Head(d)[1] :> Head(d)[2]) @@ reg, Tail(d))

PortfolioData_set_chain_underlying(W, chain_symbol, contract) ==
    LET us == contract.vt_symbol
        W1 == IF us \in DOMAIN W.und THEN W
              ELSE [W EXCEPT !.und = W.und @@ (us :> UnderlyingData_init(contract))]
        W2 == PortfolioData_get_chain(W1, chain_symbol)
        W3 == ChainData_set_underlying(W2, chain_symbol, us)
    IN [W3 EXCEPT !.chains = SeqAdd(W3.chains, chain_symbol),
                  !.options = ActivateAll(W3.options, W3.chn[chain_symbol].options)]

-----------------------------------------------------------------------------
\* InstrumentData

\* variant: the net quantity as the sum of the two sides
InstrumentData_calculate_net_pos_sum(o) == [o EXCEPT !.net_pos = o.long_pos + o.short_pos]

InstrumentData_calculate_net_pos(o) == [o EXCEPT !.net_pos = o.long_pos - o.short_pos]

InstrumentData_update_tick(o, tick) ==
    [o EXCEPT !.tick = <<tick.bid_price_1, tick.ask_price_1>>,
              !.mid_price = (tick.bid_price_1 + tick.ask_price_1) \div 2]

\* variant: the rule as section 4.1 words it, every fill adds to the side of
\* its direction
InstrumentData_update_trade_by_direction(o, trade) ==
    InstrumentData_calculate_net_pos(
        IF trade.direction = LONG
        THEN [o EXCEPT !.long_pos = @ + trade.volume]
        ELSE [o EXCEPT !.short_pos = @ + trade.volume])

InstrumentData_update_trade(o, trade) ==
    InstrumentData_calculate_net_pos(
        IF trade.direction = LONG
        THEN IF trade.offset = OPEN
             THEN [o EXCEPT !.long_pos = @ + trade.volume]
             ELSE [o EXCEPT !.short_pos = @ - trade.volume]
        ELSE IF trade.offset = OPEN
             THEN [o EXCEPT !.short_pos = @ + trade.volume]
             ELSE [o EXCEPT !.long_pos = @ - trade.volume])

InstrumentData_update_holding(o, holding) ==
    InstrumentData_calculate_net_pos(
        [o EXCEPT !.long_pos = holding.long_pos, !.short_pos = holding.short_pos])

-----------------------------------------------------------------------------
\* OptionData

\* time_to_expiry = days_to_expiry / ANNUAL_DAYS, in years
TimeToExpiry(o) == o.days_to_expiry \div ANNUAL_DAYS

OptionData_calculate_option_impv(W, id) ==
    LET o == W.opt[id] IN
    IF W.exc # None \/ o.tick = NoTick THEN W
    ELSE IF o.underlying = None THEN Raise(W, "AttributeError")
    ELSE IF W.und[o.underlying].mid_price = 0 THEN W
    ELSE IF o.calculate_impv = None THEN Raise(W, "TypeError")
    ELSE LET underlying_price == W.und[o.underlying].mid_price + o.underlying_adjustment
             ask == calculate_impv(o.tick[2], underlying_price, o.strike_price,
                                   o.interest_rate, TimeToExpiry(o), o.option_type)
             bid == calculate_impv(o.tick[1], underlying_price, o.strike_price,
                                   o.interest_rate, TimeToExpiry(o), o.option_type)
         IN [W EXCEPT !.opt[id].ask_impv = ask,
                      !.opt[id].bid_impv = bid,
                      !.opt[id].mid_impv = (ask + bid) \div 2,
                      !.opt[id].pricing_impv = (ask + bid) \div 2]

OptionData_calculate_theo_greeks(W, id) ==
    LET o == W.opt[id] IN
    IF W.exc # None THEN W
    ELSE IF o.underlying = None THEN Raise(W, "AttributeError")
    ELSE IF W.und[o.underlying].mid_price = 0 \/ o.pricing_impv = 0 THEN W
    ELSE IF o.calculate_greeks = None THEN Raise(W, "TypeError")
    ELSE LET underlying_price == W.und[o.underlying].mid_price + o.underlying_adjustment
             g == calculate_greeks(underlying_price, o.strike_price, o.interest_rate,
                                   TimeToExpiry(o), o.pricing_impv, o.option_type)
         IN [W EXCEPT !.opt[id].theo_price = g.price,
                      !.opt[id].theo_delta = g.delta * o.size,
                      !.opt[id].theo_gamma = g.gamma * o.size,
                      !.opt[id].theo_theta = g.theta * o.size,
                      !.opt[id].theo_vega = g.vega * o.size]

OptionData_calculate_pos_greeks(o) ==
    [o EXCEPT !.pos_value = o.theo_price * o.size * o.net_pos,
              !.pos_delta = o.theo_delta * o.net_pos,
              !.pos_gamma = o.theo_gamma * o.net_pos,
              !.pos_theta = o.theo_theta * o.net_pos,
              !.pos_vega = o.theo_vega * o.net_pos]

\* variant: an option quote also refreshes the theoretical and position Greeks
OptionData_update_tick_repricing(W, id, tick) ==
    LET W1 == OptionData_calculate_theo_greeks(
                  OptionData_calculate_option_impv(
                      [W EXCEPT !.opt[id] = InstrumentData_update_tick(@, tick)], id), id)
    IN IF W1.exc # None THEN W1
       ELSE [W1 EXCEPT !.opt[id] = OptionData_calculate_pos_greeks(@)]

OptionData_update_tick(W, id, tick) ==
    OptionData_calculate_option_impv(
        [W EXCEPT !.opt[id] = InstrumentData_update_tick(@, tick)], id)

\* variant: a fill that leaves the position Greeks as they were
OptionData_update_trade_positions_only(o, trade) == InstrumentData_update_trade(o, trade)

OptionData_update_trade(o, trade) ==
    OptionData_calculate_pos_greeks(InstrumentData_update_trade(o, trade))

OptionData_update_underlying_tick(W, id, underlying_adjustment) ==
    IF W.exc # None THEN W
    ELSE LET W1 == [W EXCEPT !.opt[id].underlying_adjustment = underlying_adjustment]
             W2 == OptionData_calculate_option_impv(W1, id)
             W3 == OptionData_calculate_theo_greeks(W2, id)
         IN IF W3.exc # None THEN W3
            ELSE [W3 EXCEPT !.opt[id] = OptionData_calculate_pos_greeks(@)]

OptionData_set_interest_rate(o, interest_rate) == [o EXCEPT !.interest_rate = interest_rate]

OptionData_set_pricing_model(o, pricing_model) ==
    [o EXCEPT !.calculate_greeks = pricing_model,
              !.calculate_impv = pricing_model,
              !.calculate_price = pricing_model]

-----------------------------------------------------------------------------
\* ChainData

\* True when the option counts in a rescan
Counted(o) == o.net_pos # 0

RECURSIVE SumField(_, _, _)
\* sum of field f over the options ids[1..] that count in a rescan
SumField(heap, ids, f) ==
    IF ids = <<>> THEN 0
    ELSE (IF Counted(heap[Head(ids)]) THEN heap[Head(ids)][f] ELSE 0)
         + SumField(heap, Tail(ids), f)

ChainData_calculate_pos_greeks(W, cs) ==
    IF W.exc # None THEN W
    ELSE LET ids == DictValues(W.chn[cs].options)
             long == SumField(W.opt, ids, "long_pos")
             short == SumField(W.opt, ids, "short_pos")
         IN [W EXCEPT !.chn[cs].long_pos = long,
                      !.chn[cs].short_pos = short,
                      !.chn[cs].pos_value = SumField(W.opt, ids, "pos_value"),
                      !.chn[cs].pos_delta = SumField(W.opt, ids, "pos_delta"),
                      !.chn[cs].pos_gamma = SumField(W.opt, ids, "pos_gamma"),
                      !.chn[cs].pos_theta = SumField(W.opt, ids, "pos_theta"),
                      !.chn[cs].pos_vega = SumField(W.opt, ids, "pos_vega"),
                      !.chn[cs].net_pos = long - short]

ChainData_update_tick(W, cs, tick) ==
    IF ~DictHas(W.chn[cs].options, tick.vt_symbol) THEN Raise(W, "KeyError")
    ELSE OptionData_update_tick(W, DictGet(W.chn[cs].options, tick.vt_symbol), tick)

RECURSIVE UnderlyingTickAll(_, _, _)
UnderlyingTickAll(W, ids, adj) ==
    IF ids = <<>> \/ W.exc # None THEN W
    ELSE UnderlyingTickAll(OptionData_update_underlying_tick(W, Head(ids), adj),
                           Tail(ids), adj)

\* variant: the options are re-priced but the chain is not rescanned
ChainData_update_underlying_tick_no_rescan(W, cs) ==
    IF W.exc # None THEN W
    ELSE UnderlyingTickAll(W, DictValues(W.chn[cs].options),
                           W.chn[cs].underlying_adjustment)

ChainData_update_underlying_tick(W, cs) ==
    IF W.exc # None THEN W
    ELSE ChainData_calculate_pos_greeks(
             UnderlyingTickAll(W, DictValues(W.chn[cs].options),
                               W.chn[cs].underlying_adjustment), cs)

\* chain aggregates with the option's figures taken out (sign = -1) or put in (sign = 1)
ChainShift(c, o, sign) ==
    [c EXCEPT !.long_pos = @ + sign * o.long_pos,
              !.short_pos = @ + sign * o.short_pos,
              !.pos_value = @ + sign * o.pos_value,
              !.pos_delta = @ + sign * o.pos_delta,
              !.pos_gamma = @ + sign * o.pos_gamma,
              !.pos_theta = @ + sign * o.pos_theta,
              !.pos_vega = @ + sign * o.pos_vega]

ChainData_update_trade(W, cs, trade) ==
    IF ~DictHas(W.chn[cs].options, trade.vt_symbol) THEN Raise(W, "KeyError")
    ELSE LET id == DictGet(W.chn[cs].options, trade.vt_symbol)
             old == W.opt[id]
             new == OptionData_update_trade(old, trade)
             c1 == ChainShift(ChainShift(W.chn[cs], old, -1), new, 1)
         IN [W EXCEPT !.opt[id] = new,
                      !.chn[cs] = [c1 EXCEPT !.net_pos = c1.long_pos - c1.short_pos]]

RECURSIVE MapOptions(_, _, _, _)
\* heap with Op(object, arg) applied to every object of ids
MapOptions(heap, ids, Op(_, _), arg) ==
    IF ids = <<>> THEN heap
    ELSE MapOptions([heap EXCEPT ![Head(ids)] = Op(@, arg)], Tail(ids), Op, arg)

ChainData_set_interest_rate(W, cs, interest_rate) ==
    [W EXCEPT !.opt = MapOptions(W.opt, DictValues(W.chn[cs].options),
                                 OptionData_set_interest_rate, interest_rate)]

ChainData_set_pricing_model(W, cs, pricing_model) ==
    [W EXCEPT !.opt = MapOptions(W.opt, DictValues(W.chn[cs].options),
                                 OptionData_set_pricing_model, pricing_model)]

RECURSIVE AtmScan(_, _, _, _, _)
\* the loop of calculate_atm_price over calls.values(): <<atm_distance, atm_price>>
AtmScan(heap, ids, underlying_price, atm_distance, atm_price) ==
    IF ids = <<>> THEN <<atm_distance, atm_price>>
    ELSE LET call == heap[Head(ids)]
             price_distance == Abs(underlying_price - call.strike_price)
         IN IF atm_distance = 0 \/ price_distance < atm_distance
            THEN AtmScan(heap, Tail(ids), underlying_price, price_distance,
                         call.strike_price)
            ELSE AtmScan(heap, Tail(ids), underlying_price, atm_distance, atm_price)

\* the index stored is that of the loop variable after the loop: the last call
ChainData_calculate_atm_price(W, cs) ==
    LET c == W.chn[cs] IN
    IF W.exc # None THEN W
    ELSE IF c.underlying = None THEN Raise(W, "AttributeError")
    ELSE LET ids == DictValues(c.calls)
             r == AtmScan(W.opt, ids, W.und[c.underlying].mid_price, 0, 0)
             W1 == [W EXCEPT !.chn[cs].atm_price = r[2]]
         IN IF ids = <<>> THEN Raise(W1, "UnboundLocalError")
            ELSE [W1 EXCEPT !.chn[cs].atm_index = W.opt[ids[Len(ids)]].chain_index]

ChainData_calculate_underlying_adjustment(W, cs) ==
    LET c == W.chn[cs] IN
    IF c.atm_price = 0 THEN W
    ELSE IF ~DictHas(c.calls, c.atm_index) \/ ~DictHas(c.puts, c.atm_index)
         THEN Raise(W, "KeyError")
    ELSE IF c.underlying = None THEN Raise(W, "AttributeError")
    ELSE LET atm_call == W.opt[DictGet(c.calls, c.atm_index)]
             atm_put == W.opt[DictGet(c.puts, c.atm_index)]
             synthetic_price == atm_call.mid_price - atm_put.mid_price + c.atm_price
         IN [W EXCEPT !.chn[cs].underlying_adjustment =
                          synthetic_price - W.und[c.underlying].mid_price]

-----------------------------------------------------------------------------
\* UnderlyingData

UnderlyingData_calculate_pos_greeks(u) == [u EXCEPT !.pos_delta = u.theo_delta * u.net_pos]

RECURSIVE ChainsUnderlyingTick(_, _)
ChainsUnderlyingTick(W, css) ==
    IF css = <<>> \/ W.exc # None THEN W
    ELSE ChainsUnderlyingTick(ChainData_update_underlying_tick(W, Head(css)), Tail(css))

UnderlyingData_update_tick(W, us, tick) ==
    LET u1 == InstrumentData_update_tick(W.und[us], tick)
        u2 == [u1 EXCEPT !.theo_delta = (u1.size * u1.mid_price) \div 100]
        W1 == ChainsUnderlyingTick([W EXCEPT !.und[us] = u2], u2.chains)
    IN IF W1.exc # None THEN W1
       ELSE [W1 EXCEPT !.und[us] = UnderlyingData_calculate_pos_greeks(@)]

UnderlyingData_update_trade(u, trade) ==
    UnderlyingData_calculate_pos_greeks(InstrumentData_update_trade(u, trade))

-----------------------------------------------------------------------------
\* PortfolioData: aggregation, dispatch, fan-out

RECURSIVE SumChains(_, _, _)
SumChains(chainmap, css, f) ==
    IF css = <<>> THEN 0 ELSE chainmap[Head(css)][f] + SumChains(chainmap, Tail(css), f)

RECURSIVE SumUnderlyings(_, _)
SumUnderlyings(undmap, syms) ==
    IF syms = {} THEN 0
    ELSE LET s == CHOOSE x \in syms : TRUE
         IN undmap[s].pos_delta + SumUnderlyings(undmap, syms \ {s})

\* variant: the underlying's delta added once for every active chain on it
UnderlyingDelta_per_chain(W) ==
    SumSet(1..Len(W.chains), [i \in 1..Len(W.chains) |->
               IF W.chn[W.chains[i]].underlying = None THEN 0
               ELSE W.und[W.chn[W.chains[i]].underlying].pos_delta])

\* what the loop over self.underlyings adds to the portfolio delta
UnderlyingDelta(W) == SumUnderlyings(W.und, DOMAIN W.und)

PortfolioData_calculate_pos_greeks(W) ==
    IF W.exc # None THEN W
    ELSE LET long == SumChains(W.chn, W.chains, "long_pos")
             short == SumChains(W.chn, W.chains, "short_pos")
         IN [W EXCEPT !.pf =
                [long_pos |-> long,
                 short_pos |-> short,
                 net_pos |-> long - short,
                 pos_value |-> SumChains(W.chn, W.chains, "pos_value"),
                 pos_delta |-> UnderlyingDelta(W) + SumChains(W.chn, W.chains, "pos_delta"),
                 pos_gamma |-> SumChains(W.chn, W.chains, "pos_gamma"),
                 pos_theta |-> SumChains(W.chn, W.chains, "pos_theta"),
                 pos_vega |-> SumChains(W.chn, W.chains, "pos_vega")]]

\* the registry the dispatch looks an option symbol up in
RoutedOption(W, sym) == sym \in DOMAIN W.options
RoutedUnderlying(W, sym) == ~RoutedOption(W, sym) /\ sym \in DOMAIN W.und

PortfolioData_update_tick(W, tick) ==
    IF RoutedOption(W, tick.vt_symbol)
    THEN PortfolioData_calculate_pos_greeks(
             ChainData_update_tick(W, W.opt[W.options[tick.vt_symbol]].chain, tick))
    ELSE IF RoutedUnderlying(W, tick.vt_symbol)
    THEN PortfolioData_calculate_pos_greeks(
             UnderlyingData_update_tick(W, tick.vt_symbol, tick))
    ELSE W

\* variant: fills routed through the master registry
PortfolioData_update_trade_master(W, trade) ==
    IF trade.vt_symbol \in DOMAIN W.all_options
    THEN PortfolioData_calculate_pos_greeks(
             ChainData_update_trade(W, W.opt[W.all_options[trade.vt_symbol]].chain, trade))
    ELSE IF RoutedUnderlying(W, trade.vt_symbol)
    THEN PortfolioData_calculate_pos_greeks(
             [W EXCEPT !.und[trade.vt_symbol] = UnderlyingData_update_trade(@, trade)])
    ELSE W

PortfolioData_update_trade(W, trade) ==
    IF RoutedOption(W, trade.vt_symbol)
    THEN PortfolioData_calculate_pos_greeks(
             ChainData_update_trade(W, W.opt[W.options[trade.vt_symbol]].chain, trade))
    ELSE IF RoutedUnderlying(W, trade.vt_symbol)
    THEN PortfolioData_calculate_pos_greeks(
             [W EXCEPT !.und[trade.vt_symbol] = UnderlyingData_update_trade(@, trade)])
    ELSE W

RECURSIVE ForChains(_, _, _, _)
\* W with Op(W, chain, arg) applied for every chain of css, in order, until a raise
ForChains(W, css, Op(_, _, _), arg) ==
    IF css = <<>> \/ W.exc # None THEN W
    ELSE ForChains(Op(W, Head(css), arg), Tail(css), Op, arg)

PortfolioData_set_interest_rate(W, interest_rate) ==
    ForChains(W, W.chains, ChainData_set_interest_rate, interest_rate)

PortfolioData_set_pricing_model(W, pricing_model) ==
    ForChains(W, W.chains, ChainData_set_pricing_model, pricing_model)

RECURSIVE AtmChains(_, _)
AtmChains(W, css) ==
    IF css = <<>> \/ W.exc # None THEN W
    ELSE AtmChains(ChainData_calculate_atm_price(W, Head(css)), Tail(css))

PortfolioData_calculate_atm_price(W) == AtmChains(W, W.chains)

-----------------------------------------------------------------------------
\* Actions: one per call a collaborator makes

RECURSIVE SumAbs(_)
SumAbs(objs) ==
    IF objs = <<>> THEN 0
    ELSE Abs(Head(objs).long_pos) + Abs(Head(objs).short_pos) + SumAbs(Tail(objs))

RECURSIVE UndSeq(_, _)
UndSeq(undmap, syms) ==
    IF syms = {} THEN <<>>
    ELSE LET s == CHOOSE x \in syms : TRUE
         IN <<undmap[s]>> \o UndSeq(undmap, syms \ {s})

\* total open quantity of the book
Exposure(W) == SumAbs(W.opt) + SumAbs(UndSeq(W.und, DOMAIN W.und))

\* bound on the heap: the book constructs at most n OptionData objects
Room(n) == Len(opt) < n

get_chain(chain_symbol) == Apply(PortfolioData_get_chain(World, chain_symbol))

add_option(contract) == Apply(PortfolioData_add_option(World, contract))

set_chain_underlying(chain_symbol, contract) ==
    Apply(PortfolioData_set_chain_underlying(World, chain_symbol, contract))

set_pricing_model(pricing_model) ==
    Apply(PortfolioData_set_pricing_model(World, pricing_model))

set_interest_rate(interest_rate) ==
    Apply(PortfolioData_set_interest_rate(World, interest_rate))

calculate_pos_greeks == Apply(PortfolioData_calculate_pos_greeks(World))

update_tick(tick) == Apply(PortfolioData_update_tick(World, tick))

\* any fill is taken, a closing fill against a flat position included; the
\* guard is the bound on the open quantity
update_trade(trade) ==
    LET W == PortfolioData_update_trade(World, trade)
    IN Exposure(W) <= MaxPos /\ Apply(W)

\* distance between the quantities a chain carries and those of its options
QuantityDrift(W) ==
    LET Members(cs) == {W.chn[cs].options[i][2] : i \in 1..Len(W.chn[cs].options)}
        Drift(cs, f) ==
            Abs(W.chn[cs][f] - SumSet(Members(cs), [id \in Members(cs) |-> W.opt[id][f]]))
    IN SumSet(DOMAIN W.chn, [cs \in DOMAIN W.chn |->
                                 Drift(cs, "long_pos") + Drift(cs, "short_pos")])

\* the position Greeks an option and a chain carry
GreekFields == {"pos_value", "pos_delta", "pos_gamma", "pos_theta", "pos_vega"}

\* the registries through which a collaborator reaches an option:
\* portfolio._options (registered) and portfolio.options (active)
OptionRegistries == {"_options", "options"}

\* the objects of a registry; portfolio.underlyings holds its objects itself

Registry(reg) ==
    IF reg = "_options" THEN all_options
    ELSE IF reg = "options" THEN options
    ELSE [s \in DOMAIN und |-> s]

\* world W with handler F applied to the instrument registry reg holds under sym
OnInstrument(W, reg, sym, F(_)) ==
    IF reg = "underlyings"
    THEN [W EXCEPT !.und[sym] = F(@)]
    ELSE [W EXCEPT !.opt[Registry(reg)[sym]] = F(@)]

\* True when the position Greeks every chain carries are within n contracts
\* of those of its options, a contract counted with the Greeks of object o
GreekDriftWithin(W, o, n) ==
    LET Members(cs) == {W.chn[cs].options[i][2] : i \in 1..Len(W.chn[cs].options)}
        unit == OptionData_calculate_pos_greeks([o EXCEPT !.net_pos = 1])
    IN \A cs \in DOMAIN W.chn : \A f \in GreekFields :
           Abs(W.chn[cs][f] - SumSet(Members(cs), [id \in Members(cs) |-> W.opt[id][f]]))
               <= n * Abs(unit[f])

\* the snapshot is applied to the instrument itself, active or not, option or
\* underlying; nothing else is told
update_holding(reg, sym, holding) ==
    /\ sym \in DOMAIN Registry(reg)
    /\ LET Snapshot(o) == InstrumentData_update_holding(o, holding)
           W == OnInstrument(World, reg, sym, Snapshot)
       IN Exposure(W) <= MaxPos /\ QuantityDrift(W) <= MaxPos /\ Apply(W)

\* OptionData.calculate_pos_greeks called on the option itself
option_calculate_pos_greeks(reg, sym) ==
    /\ reg # "underlyings"
    /\ sym \in DOMAIN Registry(reg)
    /\ LET W == OnInstrument(World, reg, sym, OptionData_calculate_pos_greeks)
       IN GreekDriftWithin(W, W.opt[Registry(reg)[sym]], MaxPos) /\ Apply(W)

\* UnderlyingData.calculate_pos_greeks called on the underlying itself
underlying_calculate_pos_greeks(sym) ==
    /\ sym \in DOMAIN und
    /\ Apply(OnInstrument(World, "underlyings", sym, UnderlyingData_calculate_pos_greeks))

\* ChainData.calculate_pos_greeks called on the chain itself
chain_calculate_pos_greeks(chain_symbol) ==
    /\ chain_symbol \in DOMAIN chn
    /\ Apply(ChainData_calculate_pos_greeks(World, chain_symbol))

calculate_atm_price == Apply(PortfolioData_calculate_atm_price(World))

calculate_underlying_adjustment(chain_symbol) ==
    /\ chain_symbol \in DOMAIN chn
    /\ Apply(ChainData_calculate_underlying_adjustment(World, chain_symbol))

Contract(sym) == CHOOSE c \in OptionContracts \cup UnderlyingContracts : c.vt_symbol = sym

TicksOf(syms, quotes) == { Tick(s, q[1], q[2]) : s \in syms, q \in quotes }
TradesOf(syms) == { Trade(s, d, o, 1) : s \in syms, d \in {LONG, SHORT}, o \in {OPEN, CLOSE} }

\* The book: a call and a put registered at any time and any number of times
\* within the bound, their chain activated on an underlying, quotes and fills
NextBook ==
    \/ get_chain("IO.CFFEX")
    \/ \E c \in {Contract("C100"), Contract("P100")} : Room(MaxObjs) /\ add_option(c)
    \/ set_chain_underlying("IO.CFFEX", Contract("IF"))
    \/ \E m \in PricingModels : set_pricing_model(m)
    \/ calculate_pos_greeks
    \/ \E t \in TicksOf({"C100", "ZZ"}, {<<2, 4>>})
                \cup TicksOf({"IF"}, {<<100, 102>>}) : update_tick(t)
    \/ \E t \in TradesOf({"C100", "IF", "ZZ"}) : update_trade(t)

Spec == Init /\ [][NextBook]_vars

\* The shared underlying: two chains activated on one underlying, a call of
\* one of them registered at any time, quotes, and fills on the call and the
\* underlying
NextShared ==
    \/ Room(MaxObjs) /\ add_option(Contract("C100"))
    \/ \E cs \in ChainSymbols : set_chain_underlying(cs, Contract("IF"))
    \/ \E m \in PricingModels : set_pricing_model(m)
    \/ calculate_pos_greeks
    \/ \E t \in TicksOf({"C100"}, {<<2, 4>>})
                \cup TicksOf({"IF"}, {<<100, 102>>}) : update_tick(t)
    \/ \E t \in TradesOf({"C100", "IF"}) : update_trade(t)

SpecShared == Init /\ [][NextShared]_vars

\* The live book: one chain, quotes and fills on both of its options and
\* quotes on the underlying, in any order
NextLive ==
    \/ get_chain("IO.CFFEX")
    \/ \E c \in {Contract("C100"), Contract("P100")} : Room(MaxObjs) /\ add_option(c)
    \/ set_chain_underlying("IO.CFFEX", Contract("IF"))
    \/ \E m \in PricingModels : set_pricing_model(m)
    \/ calculate_pos_greeks
    \/ \E t \in TicksOf({"C100", "P100"}, {<<2, 4>>})
                \cup TicksOf({"IF"}, {<<100, 102>>}) : update_tick(t)
    \/ \E t \in TradesOf({"C100", "P100"}) : update_trade(t)

SpecLive == Init /\ [][NextLive]_vars

\* The registration book: registration at any time (also late and repeated),
\* activation and re-activation of a chain on either of two underlyings,
\* propagation of the interest rate, quotes, fills and position snapshots on
\* an underlying and its position delta recalculated on its own
NextReg ==
    \/ get_chain("IO.CFFEX")
    \/ \E c \in {Contract("C100"), Contract("P100")} : Room(MaxObjs) /\ add_option(c)
    \/ \E c \in UnderlyingContracts : set_chain_underlying("IO.CFFEX", c)
    \/ \E r \in InterestRates : set_interest_rate(r)
    \/ calculate_pos_greeks
    \/ underlying_calculate_pos_greeks("IF")
    \/ \E t \in TicksOf({"IF"}, {<<100, 102>>}) : update_tick(t)
    \/ \E h \in Holdings : update_holding("underlyings", "IF", h)
    \/ \E t \in TradesOf({"IF"}) : update_trade(t)

SpecReg == Init /\ [][NextReg]_vars

\* The at-the-money book: two calls and a put of one chain, registered in any
\* order; quotes on a call and the underlying (mid prices 100 and 102
\* against strikes 100 and 104); the at-the-money scan and the underlying
\* adjustment
NextAtm ==
    \/ get_chain("IO.CFFEX")
    \/ \E c \in OptionContracts : Room(MaxAtmObjs) /\ add_option(c)
    \/ set_chain_underlying("IO.CFFEX", Contract("IF"))
    \/ \E m \in PricingModels : set_pricing_model(m)
    \/ \E t \in TicksOf({"C100"}, {<<4, 8>>})
                \cup TicksOf({"IF"}, {<<99, 101>>, <<101, 103>>}) : update_tick(t)
    \/ calculate_atm_price
    \/ calculate_underlying_adjustment("IO.CFFEX")

SpecAtm == Init /\ [][NextAtm]_vars

\* The cascade book: a call and a put of one chain; quotes on the call and
\* the underlying (the put is never quoted), fills on the call and the
\* underlying, the at-the-money scan and the underlying adjustment, so that
\* the chain carries a non-zero adjustment into a cascade
NextCascade ==
    \/ get_chain("IO.CFFEX")
    \/ \E c \in {Contract("C100"), Contract("P100")} : Room(MaxObjs) /\ add_option(c)
    \/ set_chain_underlying("IO.CFFEX", Contract("IF"))
    \/ \E m \in PricingModels : set_pricing_model(m)
    \/ \E t \in TicksOf({"C100"}, {<<4, 8>>})
                \cup TicksOf({"IF"}, {<<101, 103>>}) : update_tick(t)
    \/ \E t \in TradesOf({"C100", "IF"}) : update_trade(t)
    \/ calculate_atm_price
    \/ calculate_underlying_adjustment("IO.CFFEX")

SpecCascade == Init /\ [][NextCascade]_vars

\* snapshots of a long position, flat or held
LongHoldings == {h \in Holdings : h.short_pos = 0}

\* fills that open and close a long position
LongTradesOf(sym) == {Trade(sym, LONG, OPEN, 1), Trade(sym, SHORT, CLOSE, 1)}

\* The reconciled book: one call registered at any time and any number of
\* times within the bound; quotes, fills on the long side, snapshots of a long
\* position on the call reached through either registry, and the position
\* Greeks of the option, the chain or the portfolio recalculated on their own,
\* in any order
NextHold ==
    \/ get_chain("IO.CFFEX")
    \/ Room(MaxObjs) /\ add_option(Contract("C100"))
    \/ set_chain_underlying("IO.CFFEX", Contract("IF"))
    \/ \E m \in PricingModels : set_pricing_model(m)
    \/ calculate_pos_greeks
    \/ chain_calculate_pos_greeks("IO.CFFEX")
    \/ \E reg \in OptionRegistries : option_calculate_pos_greeks(reg, "C100")
    \/ \E t \in TicksOf({"C100"}, {<<2, 4>>})
                \cup TicksOf({"IF"}, {<<100, 102>>}) : update_tick(t)
    \/ \E h \in LongHoldings : \E reg \in OptionRegistries : update_holding(reg, "C100", h)
    \/ \E t \in LongTradesOf("C100") : update_trade(t)

SpecHold == Init /\ [][NextHold]_vars

-----------------------------------------------------------------------------
\* Vocabulary of the properties

\* every quote and fill a collaborator can deliver
AllTicks ==
    TicksOf(OptionSymbols \cup {"ZZ"}, OptionQuotes)
    \cup TicksOf(UnderlyingSymbols, UnderlyingQuotes)
AllTrades == TradesOf(Symbols)

InActiveRegistry(sym) == sym \in DOMAIN options \/ sym \in DOMAIN und

ActiveChainsOf(W) == {W.chains[i] : i \in 1..Len(W.chains)}
MembersOf(W, cs) == {W.chn[cs].options[i][2] : i \in 1..Len(W.chn[cs].options)}

\* the object a fill for sym lands on, in world W
FillTarget(W, sym) ==
    IF sym \in DOMAIN W.options
    THEN W.opt[DictGet(W.chn[W.opt[W.options[sym]].chain].options, sym)]
    ELSE W.und[sym]

\* the fill is one the action update_trade delivers
Admitted(W) == Exposure(W) <= MaxPos

\* The two-phase protocol has been kept: every OptionData object is the one
\* its symbol is registered to (no contract was registered twice), and every
\* option of an active chain was promoted with it (none was registered after
\* the activation): it is in the active registry and bound to the chain's
\* underlying.
TwoPhaseKept ==
    /\ \A id \in 1..Len(opt) : all_options[opt[id].vt_symbol] = id
    /\ \A cs \in ActiveChainsOf(World) : \A id \in MembersOf(World, cs) :
          /\ opt[id].vt_symbol \in DOMAIN options
          /\ options[opt[id].vt_symbol] = id
          /\ opt[id].underlying = chn[cs].underlying

-----------------------------------------------------------------------------
\* C1.  In every state reachable by registering options, activating chains and
\* dispatching any interleaving of option fills and underlying quotes through
\* PortfolioData.update_trade / update_tick, each active chain's pos_value,
\* pos_delta, pos_gamma, pos_theta and pos_vega equal the direct sum of the
\* current position figures of all options in chain.options.
C1_ChainGreeksAreDirectSums ==
    \A cs \in ActiveChainsOf(World) : \A f \in GreekFields :
        chn[cs][f] = SumSet(MembersOf(World, cs), [id \in MembersOf(World, cs) |-> opt[id][f]])

\* C2.  In every reachable state of a book that keeps the two-phase protocol
\* each active chain's long_pos and short_pos equal the sums of long_pos and
\* short_pos over the member options whose net_pos is non-zero (what a full
\* rescan would produce in that state).
C2_ChainQuantitiesMatchRescan ==
    TwoPhaseKept =>
        \A cs \in ActiveChainsOf(World) :
            LET counted == {id \in MembersOf(World, cs) : opt[id].net_pos # 0}
            IN /\ chn[cs].long_pos = SumSet(counted, [id \in counted |-> opt[id].long_pos])
               /\ chn[cs].short_pos = SumSet(counted, [id \in counted |-> opt[id].short_pos])

\* The portfolio figures of W are the sums over the active chains, plus, for
\* the delta, every active underlying's delta counted once.
PortfolioIsSum(W) ==
    LET cs == ActiveChainsOf(W)
        OverChains(f) == SumSet(cs, [c \in cs |-> W.chn[c][f]])
    IN /\ W.pf.pos_delta = OverChains("pos_delta")
                           + SumSet(DOMAIN W.und, [u \in DOMAIN W.und |-> W.und[u].pos_delta])
       /\ \A f \in {"long_pos", "short_pos", "pos_value", "pos_gamma", "pos_theta",
                    "pos_vega"} : W.pf[f] = OverChains(f)
       /\ W.pf.net_pos = W.pf.long_pos - W.pf.short_pos

\* C3.  After every quote or fill that update_tick / update_trade routes to an
\* active option or underlying and that returns, the portfolio's pos_delta is
\* the sum over the active chains plus the sum over the active underlyings
\* (each once), its other figures are the sums over the active chains, and
\* net_pos = long_pos - short_pos.
C3_PortfolioAggregates ==
    /\ \A t \in AllTicks :
          LET W == PortfolioData_update_tick(World, t)
          IN (InActiveRegistry(t.vt_symbol) /\ W.exc = None) => PortfolioIsSum(W)
    /\ \A t \in AllTrades :
          LET W == PortfolioData_update_trade(World, t)
          IN (InActiveRegistry(t.vt_symbol) /\ W.exc = None) => PortfolioIsSum(W)

\* a dispatch has returned, two chains share an underlying that carries delta,
\* a chain carries delta, and the portfolio delta is their sum
C3_Witness ==
    /\ exc = None
    /\ "pos_value" \in DOMAIN pf
    /\ \E u \in DOMAIN und : Len(und[u].chains) >= 2 /\ und[u].pos_delta # 0
    /\ \E cs \in ActiveChainsOf(World) : chn[cs].pos_delta # 0
    /\ PortfolioIsSum(World)
    /\ pf.pos_delta # 0

\* C4.  A quote or fill whose symbol is in neither active registry (an unknown
\* symbol, or an option that is only in the master registry) changes nothing
\* and raises nothing.
C4_UnroutedIsNoOp ==
    /\ \A t \in AllTicks :
          ~InActiveRegistry(t.vt_symbol) => PortfolioData_update_tick(World, t) = World
    /\ \A t \in AllTrades :
          ~InActiveRegistry(t.vt_symbol) => PortfolioData_update_trade(World, t) = World

\* an option is registered but not active while the book carries positions
C4_Witness ==
    /\ \E s \in DOMAIN all_options : ~InActiveRegistry(s)
    /\ "pos_value" \in DOMAIN pf
    /\ pf.long_pos # 0
    /\ \E u \in DOMAIN und : und[u].net_pos # 0

\* the contribution of one fill to the long and to the short quantity
LongDelta(t) ==
    IF t.direction = LONG /\ t.offset = OPEN THEN t.volume
    ELSE IF t.direction = SHORT /\ t.offset = CLOSE THEN -t.volume ELSE 0
ShortDelta(t) ==
    IF t.direction = SHORT /\ t.offset = OPEN THEN t.volume
    ELSE IF t.direction = LONG /\ t.offset = CLOSE THEN -t.volume ELSE 0

\* C6.  After each fill of any sequence of fills on an instrument,
\* net_pos = long_pos - short_pos, with long_pos the cumulative long quantity
\* (buy-to-open adds, sell-to-close subtracts) and short_pos the cumulative
\* short quantity (sell-to-open adds, buy-to-close subtracts): stated for every
\* instrument in every state a sequence of fills reaches, and for the next
\* fill of the sequence.
C6_NetIsLongMinusShort ==
    /\ \A i \in 1..Len(opt) : opt[i].net_pos = opt[i].long_pos - opt[i].short_pos
    /\ \A u \in DOMAIN und : und[u].net_pos = und[u].long_pos - und[u].short_pos
    /\ \A t \in AllTrades : InActiveRegistry(t.vt_symbol) =>
          LET o0 == FillTarget(World, t.vt_symbol)
              o1 == FillTarget(PortfolioData_update_trade(World, t), t.vt_symbol)
          IN /\ o1.long_pos = o0.long_pos + LongDelta(t)
             /\ o1.short_pos = o0.short_pos + ShortDelta(t)
             /\ o1.net_pos = o1.long_pos - o1.short_pos

\* an option with a long position and an underlying with a short position,
\* each the target of further fills
C6_Witness ==
    /\ \E i \in 1..Len(opt) : opt[i].long_pos = 1 /\ opt[i].net_pos = 1
    /\ \E u \in DOMAIN und : und[u].short_pos = 1 /\ und[u].net_pos = -1

\* C7 as stated.  A fill that opens a long or closes a short increases long_pos
\* by the volume, a fill that opens a short or closes a long increases
\* short_pos by the volume, and no fill decreases long_pos or short_pos.
C7_FillsOnlyIncrease ==
    \A t \in AllTrades :
       LET W == PortfolioData_update_trade(World, t)
           o0 == FillTarget(World, t.vt_symbol)
           o1 == FillTarget(W, t.vt_symbol)
       IN (InActiveRegistry(t.vt_symbol) /\ Admitted(W)) =>
             /\ t.direction = LONG => o1.long_pos = o0.long_pos + t.volume
             /\ t.direction = SHORT => o1.short_pos = o0.short_pos + t.volume
             /\ o1.long_pos >= o0.long_pos
             /\ o1.short_pos >= o0.short_pos

\* C7 as amended.  An opening fill increases the quantity of its own side by
\* the volume (buy: long_pos, sell: short_pos); a closing fill decreases the
\* quantity of the opposite side by the volume (buy-to-close: short_pos,
\* sell-to-close: long_pos); the other quantity is unchanged.
C7_OpenAddsCloseSubtracts ==
    \A t \in AllTrades :
       LET W == PortfolioData_update_trade(World, t)
           o0 == FillTarget(World, t.vt_symbol)
           o1 == FillTarget(W, t.vt_symbol)
           dl == o1.long_pos - o0.long_pos
           ds == o1.short_pos - o0.short_pos
       IN InActiveRegistry(t.vt_symbol) =>
             /\ (t.offset = OPEN /\ t.direction = LONG) => (dl = t.volume /\ ds = 0)
             /\ (t.offset = OPEN /\ t.direction = SHORT) => (dl = 0 /\ ds = t.volume)
             /\ (t.offset = CLOSE /\ t.direction = LONG) => (dl = 0 /\ ds = -t.volume)
             /\ (t.offset = CLOSE /\ t.direction = SHORT) => (dl = -t.volume /\ ds = 0)

\* an active option that holds both a long and a short position, so that
\* opening and closing fills on both sides are delivered from here
C7_Witness ==
    \E sym \in DOMAIN options :
        /\ FillTarget(World, sym).long_pos = 1
        /\ FillTarget(World, sym).short_pos = 1

\* C5.  Activation is idempotent: from any state, a second
\* set_chain_underlying(chain_symbol, contract) with the same arguments leaves
\* the book exactly as the first one left it (both registries, the underlying
\* registry, the chain's underlying reference, the underlying's chains), and
\* an underlying that exists keeps its positions, quote and delta through
\* either call.
C5_ActivationIdempotent ==
    \A cs \in ChainSymbols : \A c \in UnderlyingContracts :
        LET W1 == PortfolioData_set_chain_underlying(World, cs, c)
            W2 == PortfolioData_set_chain_underlying(W1, cs, c)
        IN /\ W2 = W1
           /\ W1.exc = None
           /\ \A u \in DOMAIN und :
                 /\ u \in DOMAIN W1.und
                 /\ [W1.und[u] EXCEPT !.chains = und[u].chains] = und[u]

\* an active chain with an active option on an underlying that carries a
\* position and a quote
C5_Witness ==
    \E cs \in ActiveChainsOf(World) :
        /\ chn[cs].underlying \in DOMAIN und
        /\ und[chn[cs].underlying].net_pos # 0
        /\ und[chn[cs].underlying].tick # NoTick
        /\ \E sym \in DOMAIN options : opt[options[sym]].chain = cs

\* the state an OptionData object is constructed in, positions and pricing
Untouched(o) ==
    /\ o.calculate_greeks = None /\ o.calculate_impv = None /\ o.calculate_price = None
    /\ o.interest_rate = 0
    /\ o.tick = NoTick
    /\ o.long_pos = 0 /\ o.short_pos = 0
    /\ o.theo_delta = 0 /\ o.theo_price = 0 /\ o.pos_delta = 0

\* C10.  Only active instruments are touched: in every reachable state an
\* option object that is not in the active option registry has no pricing
\* functions and no interest rate set, has received no quote and no fill, and
\* has not been re-priced.
C10_OnlyActiveTouched ==
    \A id \in 1..Len(opt) :
        (\A sym \in DOMAIN options : options[sym] # id) => Untouched(opt[id])

\* the calls of chain cs in world W, and the distance of a call's strike to
\* the mid price of the chain's underlying
CallsOf(W, cs) == {W.chn[cs].calls[i][2] : i \in 1..Len(W.chn[cs].calls)}
PutsOf(W, cs) == {W.chn[cs].puts[i][2] : i \in 1..Len(W.chn[cs].puts)}
StrikeDistance(W, cs, id) ==
    Abs(W.und[W.chn[cs].underlying].mid_price - W.opt[id].strike_price)

\* C8.  For every chain with calls and a non-zero underlying mid price,
\* calculate_atm_price sets atm_price to the strike of a call at minimal
\* distance to the mid price (distance 0 included), and among calls at the
\* same minimal distance to that of the lowest rank index, whatever the order
\* of registration.
C8_AtmIsNearestLowestRank ==
    \A cs \in ActiveChainsOf(World) :
        LET W == ChainData_calculate_atm_price(World, cs)
            calls == CallsOf(World, cs)
            nearest == {id \in calls : \A other \in calls :
                            StrikeDistance(World, cs, id) <= StrikeDistance(World, cs, other)}
            first == {id \in nearest : \A other \in nearest :
                          IndexOrd(opt[id].chain_index) <= IndexOrd(opt[other].chain_index)}
        IN (calls # {} /\ und[chn[cs].underlying].mid_price # 0) =>
              /\ W.exc = None
              /\ \E id \in first : W.chn[cs].atm_price = opt[id].strike_price

\* C9.  calculate_underlying_adjustment changes nothing when atm_price = 0;
\* after a calculate_atm_price that, on a quoted underlying, selected a strike
\* at which the chain has a call and a put, it sets underlying_adjustment to the mid price of the call
\* at that strike minus the mid price of the put at that strike plus atm_price
\* minus the underlying mid price.
C9_AdjustmentFromAtmStrike ==
    \A cs \in DOMAIN chn :
        /\ chn[cs].atm_price = 0 =>
              ChainData_calculate_underlying_adjustment(World, cs) = World
        /\ cs \in ActiveChainsOf(World) =>
              LET W1 == ChainData_calculate_atm_price(World, cs)
                  W2 == ChainData_calculate_underlying_adjustment(W1, cs)
                  atm == W1.chn[cs].atm_price
              IN (W1.exc = None /\ atm # 0 /\ und[chn[cs].underlying].mid_price # 0) =>
                    \A c \in CallsOf(World, cs) : \A q \in PutsOf(World, cs) :
                       (opt[c].strike_price = atm /\ opt[q].strike_price = atm) =>
                          /\ W2.exc = None
                          /\ W2.chn[cs].underlying_adjustment =
                                opt[c].mid_price - opt[q].mid_price + atm
                                - und[chn[cs].underlying].mid_price

\* C11.  The only hard failure is a call of the Greeks or implied-volatility
\* function of an option whose pricing model is unbound (a TypeError on the
\* None function): in every reachable state the last call either returned or
\* raised that error.
C11_OnlyUnboundPricingFails == exc \in {None, "TypeError"}

\* C12.  calculate_atm_price changes nothing and raises nothing when the
\* chain's underlying has no mid price or the chain has no calls, on the chain
\* and through PortfolioData.calculate_atm_price.
C12_AtmNoOpWithoutPriceOrCalls ==
    /\ \A cs \in ActiveChainsOf(World) :
          (und[chn[cs].underlying].mid_price = 0 \/ CallsOf(World, cs) = {}) =>
              ChainData_calculate_atm_price(World, cs) = World
    /\ (\A cs \in ActiveChainsOf(World) :
           und[chn[cs].underlying].mid_price = 0 \/ CallsOf(World, cs) = {}) =>
              PortfolioData_calculate_atm_price(World) = World

\* C13.  After a calculate_atm_price that returns, on a chain with two or more
\* calls and a quoted underlying, atm_index is the rank index of the selected
\* strike: calls[atm_index].strike_price = atm_price.
C13_AtmIndexIsOfAtmStrike ==
    \A cs \in ActiveChainsOf(World) :
        LET W == ChainData_calculate_atm_price(World, cs)
            c == W.chn[cs]
        IN (W.exc = None /\ Cardinality(CallsOf(World, cs)) >= 2
                /\ und[chn[cs].underlying].mid_price # 0) =>
              /\ DictHas(c.calls, c.atm_index)
              /\ W.opt[DictGet(c.calls, c.atm_index)].strike_price = c.atm_price

TheoFields == {"theo_price", "theo_delta", "theo_gamma", "theo_theta", "theo_vega"}
ImpvFields == {"bid_impv", "ask_impv", "mid_impv", "pricing_impv"}

PosIsTheoTimesNet(o) ==
    /\ o.pos_delta = o.theo_delta * o.net_pos
    /\ o.pos_gamma = o.theo_gamma * o.net_pos
    /\ o.pos_theta = o.theo_theta * o.net_pos
    /\ o.pos_vega = o.theo_vega * o.net_pos
    /\ o.pos_value = o.theo_price * o.size * o.net_pos

\* C16.  In every state reached through dispatched quotes and fills, and
\* after every further quote or fill (a zero quote that makes the cascade skip
\* the theoretical recompute included), every option has pos_delta =
\* theo_delta * net_pos, pos_gamma = theo_gamma * net_pos, pos_theta =
\* theo_theta * net_pos, pos_vega = theo_vega * net_pos and pos_value =
\* theo_price * size * net_pos.
C16_PosGreeksAreTheoTimesNet ==
    /\ \A i \in 1..Len(opt) : PosIsTheoTimesNet(opt[i])
    /\ \A t \in AllTicks :
          LET W == PortfolioData_update_tick(World, t)
          IN \A i \in 1..Len(W.opt) : PosIsTheoTimesNet(W.opt[i])
    /\ \A t \in AllTrades :
          LET W == PortfolioData_update_trade(World, t)
          IN \A i \in 1..Len(W.opt) : PosIsTheoTimesNet(W.opt[i])

\* one option priced and held, another held but never quoted, so that the
\* cascade of the quoted underlying skipped its theoretical recompute
C16_Witness ==
    /\ \E i \in 1..Len(opt) :
          opt[i].net_pos # 0 /\ opt[i].theo_delta # 0 /\ opt[i].pos_value # 0
    /\ \E i \in 1..Len(opt) :
          /\ opt[i].net_pos # 0 /\ opt[i].pricing_impv = 0 /\ opt[i].theo_delta = 0
          /\ opt[i].underlying # None /\ und[opt[i].underlying].mid_price # 0

\* the aggregates of chain cs in world W are those of a full rescan
ChainIsRescan(W, cs) ==
    LET counted == {id \in MembersOf(W, cs) : W.opt[id].net_pos # 0}
    IN /\ \A f \in GreekFields \cup {"long_pos", "short_pos"} :
             W.chn[cs][f] = SumSet(counted, [id \in counted |-> W.opt[id][f]])
       /\ W.chn[cs].net_pos = W.chn[cs].long_pos - W.chn[cs].short_pos

\* C15.  When PortfolioData.update_tick returns from a quote on an active
\* underlying: the underlying carries the new mid price and proxy delta;
\* every option of every chain in the underlying's chain set carries the
\* chain's underlying_adjustment and, when it is priced, a theoretical price
\* computed from the new mid price; every such chain's aggregates equal a full
\* rescan; the underlying's pos_delta is size * mid_price / 100 * net_pos; and
\* the portfolio's pos_delta contains that pos_delta.
C15_UnderlyingQuoteCascade ==
    \A t \in TicksOf(DOMAIN und, UnderlyingQuotes) :
        LET W == PortfolioData_update_tick(World, t)
            u == W.und[t.vt_symbol]
            mid == (t.bid_price_1 + t.ask_price_1) \div 2
            linked == {u.chains[i] : i \in 1..Len(u.chains)}
            active == ActiveChainsOf(W)
        IN W.exc = None =>
              /\ u.mid_price = mid /\ u.theo_delta = (u.size * mid) \div 100
              /\ \A cs \in linked :
                    /\ W.chn[cs].underlying_adjustment = chn[cs].underlying_adjustment
                    /\ \A id \in MembersOf(W, cs) :
                          LET o == W.opt[id]
                          IN /\ o.underlying_adjustment = W.chn[cs].underlying_adjustment
                             /\ (o.underlying = t.vt_symbol /\ mid # 0 /\ o.pricing_impv # 0) =>
                                   o.theo_price =
                                       calculate_greeks(mid + o.underlying_adjustment,
                                                        o.strike_price, o.interest_rate,
                                                        TimeToExpiry(o), o.pricing_impv,
                                                        o.option_type).price
                    /\ ChainIsRescan(W, cs)
              /\ u.pos_delta = ((u.size * mid) \div 100) * u.net_pos
              /\ W.pf.pos_delta =
                     SumSet(active, [cs \in active |-> W.chn[cs].pos_delta])
                     + SumSet(DOMAIN W.und, [x \in DOMAIN W.und |-> W.und[x].pos_delta])

\* a chain whose adjustment has not reached its options yet, with a priced
\* option that is held, on a quoted underlying that is held
C15_Witness ==
    \E cs \in ActiveChainsOf(World) :
        /\ chn[cs].underlying_adjustment # 0
        /\ \E id \in MembersOf(World, cs) :
              /\ opt[id].underlying_adjustment # chn[cs].underlying_adjustment
              /\ opt[id].net_pos # 0 /\ opt[id].pricing_impv # 0
              /\ opt[id].calculate_greeks # None
        /\ und[chn[cs].underlying].net_pos # 0
        /\ und[chn[cs].underlying].mid_price # 0

\* the quantities and position Greeks of chain cs in world W are the sums
\* over its member options
ChainIsSumOfMembers(W, cs) ==
    \A f \in GreekFields \cup {"long_pos", "short_pos"} :
        W.chn[cs][f] = SumSet(MembersOf(W, cs), [id \in MembersOf(W, cs) |-> W.opt[id][f]])

\* C17.  After a fill dispatched to an active option of a book that keeps
\* the two-phase protocol, also when a position snapshot has overwritten that
\* option's long_pos / short_pos before, every active chain's long_pos,
\* short_pos and position Greeks are the sums over its member options and the
\* portfolio's are the sums over its active chains.
C17_ConsistentAfterSnapshotAndFill ==
    TwoPhaseKept =>
        \A t \in TradesOf(DOMAIN options) :
            LET W == PortfolioData_update_trade(World, t)
            IN /\ \A cs \in ActiveChainsOf(W) : ChainIsSumOfMembers(W, cs)
               /\ PortfolioIsSum(W)

\* C18.  The active registries are a subset view of the master registries:
\* every active chain symbol is in the master chain registry, and every active
\* option symbol is in the master option registry and names the same object.
C18_ActiveIsSubsetOfMaster ==
    /\ \A cs \in ActiveChainsOf(World) : cs \in DOMAIN chn
    /\ \A sym \in DOMAIN options :
          sym \in DOMAIN all_options /\ options[sym] = all_options[sym]

\* C19.  A chain is in an underlying's chain set if and only if the chain's
\* underlying is that underlying.
C19_ChainUnderlyingLinksAgree ==
    \A u \in DOMAIN und : \A cs \in DOMAIN chn :
        SeqHas(und[u].chains, cs) <=> chn[cs].underlying = u

\* C20.  Every option contained in an active chain is in the active option
\* registry and has its underlying bound to the chain's underlying.
C20_ActiveChainOptionsAreActive ==
    \A cs \in ActiveChainsOf(World) : \A i \in 1..Len(chn[cs].options) :
        LET sym == chn[cs].options[i][1]
            id == chn[cs].options[i][2]
        IN /\ sym \in DOMAIN options /\ options[sym] = id
           /\ opt[id].underlying = chn[cs].underlying
====
